---- MODULE Spec2Model ----
(***************************************************************************)
(* Model of run_benchmarks.py: collect_results() runs one external build   *)
(* command per logging backend, copies and parses the JSON file the        *)
(* command leaves at a fixed path, and merges the records;                 *)
(* generate_markdown() groups the merged records by (category, format),    *)
(* sorts every group by score and writes BENCHMARK_RESULTS.md.             *)
(*                                                                         *)
(* The external command is the environment: its exit status and what it    *)
(* does to the fixed-path result file are chosen nondeterministically.     *)
(* A result file is either not parseable as JSON or a JSON array of        *)
(* objects; a key of an object may be missing.  Scores stand for numbers   *)
(* with at most two decimals, counted in hundredths.                       *)
(***************************************************************************)
EXTENDS Integers, Sequences, FiniteSets, TLC

VARIABLES
    pc,          \* position of the script
    idx,         \* position of the for loop in the backend order
    started,     \* the backends whose command was started, in start order
    running,     \* the backends whose command is in progress
    lastOk,      \* the value run_command returned for the current backend
    rc,          \* per backend: exit status of its command ("none" before)
    fileLeft,    \* per backend: did the result file exist when its command ended
    processed,   \* per backend: how the loop body ended for it
    srcFile,     \* lumberjack/benchmark/build/results/jmh/results.json
    resultsDir,  \* the directory benchmark_results_json
    all_results, \* the merged result list
    report,      \* the file BENCHMARK_RESULTS.md
    console,     \* the last line printed
    exc          \* the exception that ended the run, "none" if none

vars == <<pc, idx, started, running, lastOk, rc, fileLeft, processed,
          srcFile, resultsDir, all_results, report, console, exc>>

----------------------------------------------------------------------------
(* Bounds *)

MaxRecs == 2      \* records in one result file written by a command
MaxLen == 3       \* length of a result list handed to generate_markdown
MaxScore == 2     \* scores range over 1..MaxScore

----------------------------------------------------------------------------
(* Data *)

\* for backend in sorted(backends)
BackendsSorted == <<"jul", "log4j", "logback", "lumberjack">>

\* The dict backends; Python dicts iterate in insertion order.
BackendOrder == <<"lumberjack", "log4j", "logback", "jul">>

BenchmarkClass ==
    [b \in {"lumberjack", "log4j", "logback", "jul"} |->
        CASE b = "lumberjack" -> "LumberjackBenchmark"
          [] b = "log4j" -> "Log4jBenchmark"
          [] b = "logback" -> "LogbackBenchmark"
          [] b = "jul" -> "JulBenchmark"]

Backends == {BackendOrder[i] : i \in DOMAIN BackendOrder}

NumBackends == Len(BackendOrder)

\* A key that a JSON object does not have.
Absent == "<absent>"

\* dest_json for a backend.
DestName(backend) == "results_" \o backend \o ".json"

\* A file that does not exist.
NoFile == [exists |-> FALSE, origin |-> "none", valid |-> FALSE, data |-> <<>>]

\* A record of the JMH result file.  origin names the command run that
\* produced the record; it is not data of the program.
JmhEntry(origin, cls, category, format, score, metric) ==
    [origin |-> origin, backend |-> Absent,
     category |-> category, format |-> format,
     benchmark |-> <<"benchmark", cls, "log">>,
     metric |-> metric, score |-> score, scoreError |-> 1]

RECURSIVE SeqsUpTo(_, _)
SeqsUpTo(S, n) ==
    IF n = 0 THEN {<<>>}
    ELSE LET shorter == SeqsUpTo(S, n - 1)
         IN  shorter \cup {Append(s, x) : s \in {t \in shorter : Len(t) = n - 1}, x \in S}

\* What the command of a backend can leave at the fixed path if it writes
\* the file: text that is no JSON, or an array of records.
Produced(backend) ==
    LET recs == {JmhEntry(backend, BenchmarkClass[backend], "CONSOLE", Absent, 1, m) :
                    m \in BOOLEAN}
    IN  {[exists |-> TRUE, origin |-> backend, valid |-> FALSE, data |-> <<>>]}
        \cup {[exists |-> TRUE, origin |-> backend, valid |-> TRUE, data |-> d] :
                d \in SeqsUpTo(recs, MaxRecs)}

\* A result file left at the fixed path by an earlier run of the build.
StaleFile ==
    [exists |-> TRUE, origin |-> "earlier", valid |-> TRUE,
     data |-> <<JmhEntry("earlier", "LumberjackBenchmark", "CONSOLE", Absent, 1, TRUE)>>]

\* A copy left in the results directory by an earlier run of the script.
LeftoverFile == [StaleFile EXCEPT !.origin = "leftover"]

NoConsole == [line |-> "", about |-> ""]

OldReport == [st |-> "old", sections |-> <<>>]
NoReport == [st |-> "absent", sections |-> <<>>]

----------------------------------------------------------------------------
(* collect_results *)

Init ==
    /\ pc = "setup"
    /\ idx = 1
    /\ started = <<>>
    /\ running = {}
    /\ lastOk = FALSE
    /\ rc = [b \in Backends |-> "none"]
    /\ fileLeft = [b \in Backends |-> FALSE]
    /\ processed = [b \in Backends |-> "pending"]
    /\ srcFile \in {NoFile, StaleFile}
    /\ resultsDir \in
          { [exists |-> FALSE, files |-> {}],
            [exists |-> TRUE, files |-> {}],
            [exists |-> TRUE,
             files |-> {[name |-> DestName("jul"), file |-> LeftoverFile],
                        [name |-> "notes.txt", file |-> LeftoverFile]}] }
    /\ all_results = <<>>
    /\ report \in {NoReport, OldReport}
    /\ console = NoConsole
    /\ exc = "none"

\* os.makedirs(results_dir, exist_ok=True) without the rmtree.
KeepDir(dir) == [dir EXCEPT !.exists = TRUE]

\* shutil.rmtree of an existing directory, then os.makedirs.
RecreateDir(dir) == [exists |-> TRUE, files |-> {}]

Setup ==
    /\ pc = "setup"
    /\ all_results' = <<>>
    /\ resultsDir' = RecreateDir(resultsDir)
    /\ idx' = 1
    /\ pc' = "start"
    /\ UNCHANGED <<started, running, lastOk, rc, fileLeft, processed,
                   srcFile, report, console, exc>>

\* The loop takes the next backend and run_command starts its command.
StartCommand ==
    /\ pc = "start"
    /\ idx <= NumBackends
    /\ LET backend == BackendOrder[idx]
       IN  /\ started' = Append(started, backend)
           /\ running' = running \cup {backend}
           /\ console' = [line |-> "Running", about |-> backend]
    /\ pc' = "running"
    /\ UNCHANGED <<idx, lastOk, rc, fileLeft, processed, srcFile, resultsDir,
                   all_results, report, exc>>

\* subprocess.run returns: the command has ended with some exit status and
\* has left, removed or rewritten the result file.
CommandExit ==
    /\ pc = "running"
    /\ LET backend == BackendOrder[idx]
       IN  \E ok \in BOOLEAN :
           \E f \in {srcFile, NoFile} \cup Produced(backend) :
              /\ srcFile' = f
              /\ lastOk' = ok
              /\ rc' = [rc EXCEPT ![backend] = IF ok THEN "zero" ELSE "nonzero"]
              /\ fileLeft' = [fileLeft EXCEPT ![backend] = f.exists]
              /\ running' = running \ {backend}
              /\ console' = IF ok THEN console
                            ELSE [line |-> "Command failed", about |-> backend]
    /\ pc' = "handle"
    /\ UNCHANGED <<idx, started, processed, resultsDir, all_results, report, exc>>

\* The copy made without the test for the file.
SrcAssumed(f) == TRUE

\* os.path.exists(src_json)
SrcExists(f) == f.exists

\* shutil.copy(src_json, dest_json)
CopyInto(dir, name, f) ==
    [dir EXCEPT !.files = {e \in @ : e.name # name} \cup {[name |-> name, file |-> f]}]

\* for entry in data: entry['backend'] = backend
RECURSIVE Tag(_, _)
Tag(data, backend) ==
    IF data = <<>> THEN <<>>
    ELSE <<[Head(data) EXCEPT !.backend = backend]>> \o Tag(Tail(data), backend)

\* The for statement goes on to the next backend, or the function returns.
AfterBody == IF idx < NumBackends THEN "start" ELSE "generate"

HandleResult ==
    /\ pc = "handle"
    /\ LET backend == BackendOrder[idx]
       IN  IF lastOk
           THEN IF SrcExists(srcFile)
                THEN /\ resultsDir' = CopyInto(resultsDir, DestName(backend), srcFile)
                     /\ processed' = [processed EXCEPT ![backend] = "copied"]
                     /\ IF srcFile.valid
                        THEN /\ all_results' = all_results \o Tag(srcFile.data, backend)
                             /\ pc' = AfterBody
                             /\ idx' = idx + 1
                             /\ UNCHANGED exc
                        ELSE \* json.load raises
                             /\ pc' = "raised"
                             /\ exc' = "JSONDecodeError"
                             /\ UNCHANGED <<all_results, idx>>
                     /\ UNCHANGED console
                ELSE /\ console' = [line |-> "Warning", about |-> backend]
                     /\ processed' = [processed EXCEPT ![backend] = "missing"]
                     /\ pc' = AfterBody
                     /\ idx' = idx + 1
                     /\ UNCHANGED <<resultsDir, all_results, exc>>
           ELSE /\ console' = [line |-> "Error", about |-> backend]
                /\ processed' = [processed EXCEPT ![backend] = "failed"]
                /\ pc' = AfterBody
                /\ idx' = idx + 1
                /\ UNCHANGED <<resultsDir, all_results, exc>>
    /\ UNCHANGED <<started, running, lastOk, rc, fileLeft, srcFile, report>>

----------------------------------------------------------------------------
(* generate_markdown *)

\* The guard left out.
NeverEmpty(results) == FALSE

\* not results
NotResults(results) == results = <<>>

\* dict.get(key, 'N/A')
Get(value) == IF value = Absent THEN "N/A" ELSE value

\* key = (category, fmt)
Key(entry) == <<Get(entry.category), Get(entry.format)>>

\* grouped[key] = [entry]
ReplaceGroup(list, entry) == <<entry>>

\* grouped[key].append(entry)
AppendToGroup(list, entry) == Append(list, entry)

\* The dict grouped: its keys in insertion order and the list of each key.
RECURSIVE Grouped(_)
Grouped(results) ==
    IF results = <<>> THEN [order |-> <<>>, lists |-> <<>>]
    ELSE LET n == Len(results)
             g == Grouped(SubSeq(results, 1, n - 1))
             entry == results[n]
             key == Key(entry)
         IN  IF \E i \in DOMAIN g.order : g.order[i] = key
             THEN [g EXCEPT !.lists =
                      [i \in DOMAIN g.order |->
                          IF g.order[i] = key THEN AppendToGroup(g.lists[i], entry)
                          ELSE g.lists[i]]]
             ELSE [order |-> Append(g.order, key),
                   lists |-> Append(g.lists, AppendToGroup(<<>>, entry))]

\* grouped[key]
GroupOf(g, key) == g.lists[CHOOSE i \in DOMAIN g.order : g.order[i] = key]

\* The strings of the model in the order Python compares str (by code point).
StrOrder == <<"CONSOLE", "N/A", "PLAIN">>

StrLess(a, b) ==
    \E i, j \in DOMAIN StrOrder : StrOrder[i] = a /\ StrOrder[j] = b /\ i < j

\* Python's < on 2-tuples of str
TupleLess(k1, k2) ==
    \/ StrLess(k1[1], k2[1])
    \/ k1[1] = k2[1] /\ StrLess(k1[2], k2[2])

\* A stable insertion: x goes behind every element that is not behind it.
InsertKey(s, key) ==
    LET before == {i \in DOMAIN s : ~TupleLess(key, s[i])}
        n == Cardinality(before)
    IN  SubSeq(s, 1, n) \o <<key>> \o SubSeq(s, n + 1, Len(s))

RECURSIVE SortKeys(_)
SortKeys(keys) ==
    IF keys = <<>> THEN <<>>
    ELSE InsertKey(SortKeys(SubSeq(keys, 1, Len(keys) - 1)), keys[Len(keys)])

\* grouped.keys() as the dict holds them
UnsortedKeys(g) == g.order

\* sorted(grouped.keys())
SortedKeys(g) == SortKeys(g.order)

InsertEntry(s, entry) ==
    LET n == IF \E i \in DOMAIN s : s[i].score < entry.score
             THEN (CHOOSE i \in DOMAIN s :
                      /\ s[i].score < entry.score
                      /\ \A j \in 1..(i - 1) : s[j].score >= entry.score) - 1
             ELSE Len(s)
    IN  SubSeq(s, 1, n) \o <<entry>> \o SubSeq(s, n + 1, Len(s))

\* entries.sort(key=score) without reverse=True: lowest score first.
RECURSIVE SortAscending(_)
SortAscending(entries) ==
    IF entries = <<>> THEN <<>>
    ELSE LET last == entries[Len(entries)]
             s == SortAscending(SubSeq(entries, 1, Len(entries) - 1))
             n == Cardinality({i \in DOMAIN s : s[i].score <= last.score})
         IN  SubSeq(s, 1, n) \o <<last>> \o SubSeq(s, n + 1, Len(s))

\* entries.sort(key=score, reverse=True): stable, highest score first.
RECURSIVE SortByScore(_)
SortByScore(entries) ==
    IF entries = <<>> THEN <<>>
    ELSE InsertEntry(SortByScore(SubSeq(entries, 1, Len(entries) - 1)),
                     entries[Len(entries)])

\* entry['benchmark'].split('.')[-1]
LastSegment(benchmark) == benchmark[Len(benchmark)]

\* One line of a table.
Row(entry) ==
    [backend |-> entry.backend, benchmark |-> LastSegment(entry.benchmark),
     score |-> entry.score, error |-> entry.scoreError]

RECURSIVE Rows(_)
Rows(entries) ==
    IF entries = <<>> THEN <<>> ELSE <<Row(Head(entries))>> \o Rows(Tail(entries))

\* The loop over sorted_keys: what it has written when it ends, and whether
\* it ended by an exception.  x['primaryMetric'] of a record without that key
\* raises KeyError inside entries.sort, after the section's heading is written.
RECURSIVE WriteSections(_, _)
WriteSections(keys, g) ==
    IF keys = <<>> THEN [sections |-> <<>>, raised |-> FALSE]
    ELSE LET key == Head(keys)
             entries == GroupOf(g, key)
         IN  IF \E i \in DOMAIN entries : ~entries[i].metric
             THEN [sections |-> <<[category |-> key[1], format |-> key[2],
                                   rows |-> <<>>]>>,
                   raised |-> TRUE]
             ELSE LET rest == WriteSections(Tail(keys), g)
                  IN  [sections |-> <<[category |-> key[1], format |-> key[2],
                                       rows |-> Rows(SortByScore(entries))]>>
                                    \o rest.sections,
                       raised |-> rest.raised]

GenerateMarkdown ==
    /\ pc = "generate"
    /\ IF NotResults(all_results)
       THEN /\ console' = [line |-> "No results to process.", about |-> ""]
            /\ pc' = "done"
            /\ UNCHANGED <<report, exc>>
       ELSE LET g == Grouped(all_results)
                out == WriteSections(SortedKeys(g), g)
            IN  /\ report' = [st |-> "new", sections |-> out.sections]
                /\ IF out.raised
                   THEN /\ pc' = "raised"
                        /\ exc' = "KeyError"
                        /\ UNCHANGED console
                   ELSE /\ pc' = "done"
                        /\ console' = [line |-> "Markdown report generated", about |-> ""]
                        /\ UNCHANGED exc
    /\ UNCHANGED <<idx, started, running, lastOk, rc, fileLeft, processed,
                   srcFile, resultsDir, all_results>>

----------------------------------------------------------------------------
(* The script: collect_results(), then generate_markdown(results) *)

Next == Setup \/ StartCommand \/ CommandExit \/ HandleResult \/ GenerateMarkdown

Spec == Init /\ [][Next]_vars

----------------------------------------------------------------------------
(* generate_markdown as a function of its argument: the result list is any  *)
(* list of tagged result entries, each carrying its primary metric.         *)

MdBackends == {"lumberjack", "log4j"}

MdEntries ==
    { [JmhEntry(b, BenchmarkClass[b], c, f, s, TRUE) EXCEPT !.backend = b] :
        b \in MdBackends, c \in {Absent, "CONSOLE"},
        f \in {Absent, "PLAIN"}, s \in 1..MaxScore }

InitMd ==
    /\ pc = "generate"
    /\ idx = NumBackends + 1
    /\ started = BackendOrder
    /\ running = {}
    /\ lastOk = TRUE
    /\ rc = [b \in Backends |-> "zero"]
    /\ fileLeft = [b \in Backends |-> TRUE]
    /\ processed = [b \in Backends |-> "copied"]
    /\ srcFile = NoFile
    /\ resultsDir = [exists |-> TRUE, files |-> {}]
    /\ \E n \in 0..MaxLen : all_results \in [1..n -> MdEntries]
    /\ report = NoReport
    /\ console = NoConsole
    /\ exc = "none"

NextMd == GenerateMarkdown

SpecMd == InitMd /\ [][NextMd]_vars

----------------------------------------------------------------------------
(* Properties *)

Invoked(b) == Cardinality({i \in DOMAIN started : started[i] = b})

FileNames == {f.name : f \in resultsDir.files}

\* collect_results has returned its list.
CollectReturned == pc \in {"generate", "done"} \/ exc = "KeyError"

\* The run has ended, normally or by an exception.
RunEnded == pc \in {"done", "raised"}

\* C1: when the run has ended, the command of each of the four backends has
\* been invoked exactly once, and a backend whose command exited non-zero
\* has no file in the results directory and no entry in the merged list.
C1_FailedSkippedAllInvoked ==
    RunEnded =>
        \A b \in Backends :
            /\ Invoked(b) = 1
            /\ rc[b] = "nonzero" =>
                  /\ DestName(b) \notin FileNames
                  /\ \A i \in DOMAIN all_results : all_results[i].backend # b

\* C2: no run of the script ends by an exception.
C2_NoException == exc = "none" /\ pc # "raised"

\* C3: every record of the merged list carries the name of the backend whose
\* command run produced it, and results_<backend>.json holds only records
\* produced by that backend's own run.
C3_TaggedWithSource ==
    /\ \A i \in DOMAIN all_results : all_results[i].backend = all_results[i].origin
    /\ pc # "setup" =>
          \A f \in resultsDir.files : \A b \in Backends :
              f.name = DestName(b) =>
                  \A i \in DOMAIN f.file.data : f.file.data[i].origin = b

\* C4: the step taken after a successful command that left no result file
\* prints the warning, leaves the results directory and the merged list as
\* they are, raises nothing and goes on to the next backend (or returns
\* after the last one).
C4_MissingFileSkipped ==
    [][ (pc = "handle" /\ lastOk /\ ~srcFile.exists) =>
            /\ console' = [line |-> "Warning", about |-> BackendOrder[idx]]
            /\ resultsDir' = resultsDir
            /\ all_results' = all_results
            /\ exc' = "none"
            /\ idx' = idx + 1
            /\ pc' = IF idx < 4 THEN "start" ELSE "generate" ]_vars

C4_Witness ==
    /\ processed["lumberjack"] = "missing"
    /\ rc["lumberjack"] = "zero"
    /\ DestName("lumberjack") \notin FileNames
    /\ pc = "running"
    /\ running = {"log4j"}
    /\ all_results = <<>>

\* C5: generate_markdown called with the empty list only prints its message
\* and leaves BENCHMARK_RESULTS.md as it is (absent or with its old
\* content); called with a non-empty list it writes the file.
C5_EmptySkipsReport ==
    [][ pc = "generate" =>
            IF all_results = <<>>
            THEN /\ report' = report
                 /\ console' = [line |-> "No results to process.", about |-> ""]
                 /\ pc' = "done"
            ELSE report'.st = "new" ]_vars

C5_Witness ==
    /\ pc = "done"
    /\ all_results = <<>>
    /\ report = OldReport
    /\ console.line = "No results to process."
    /\ \A b \in Backends : processed[b] # "pending"

\* C6: in every section of the report the rows are in non-increasing order
\* of score.
C6_RowsByScoreDescending ==
    \A k \in DOMAIN report.sections :
        LET rows == report.sections[k].rows
        IN  \A i, j \in DOMAIN rows : i < j => rows[i].score >= rows[j].score

C6_Witness ==
    /\ pc = "done"
    /\ Len(all_results) = 2
    /\ all_results[1].backend = "log4j" /\ all_results[1].score = 1
    /\ all_results[2].backend = "lumberjack" /\ all_results[2].score = 2
    /\ Len(report.sections) = 1
    /\ report.sections[1].rows[1].backend = "lumberjack"
    /\ report.sections[1].rows[2].backend = "log4j"

\* The (category, format) pair of an entry, a missing one counting as N/A.
PairOf(entry) ==
    <<IF entry.category = Absent THEN "N/A" ELSE entry.category,
      IF entry.format = Absent THEN "N/A" ELSE entry.format>>

SectionPair(section) == <<section.category, section.format>>

\* C7: the report of a non-empty result list has exactly one section per
\* (category, format) pair of the list, none for another pair, and the
\* sections are in ascending order of the pair.
C7_OneSectionPerPairSorted ==
    (pc = "done" /\ all_results # <<>>) =>
        LET secs == report.sections
            pairs == {PairOf(all_results[i]) : i \in DOMAIN all_results}
        IN  /\ {SectionPair(secs[k]) : k \in DOMAIN secs} = pairs
            /\ Len(secs) = Cardinality(pairs)
            /\ \A k \in 1..(Len(secs) - 1) :
                  TupleLess(SectionPair(secs[k]), SectionPair(secs[k + 1]))

C7_Witness ==
    /\ pc = "done"
    /\ Len(all_results) = 3
    /\ PairOf(all_results[1]) = <<"N/A", "PLAIN">>
    /\ PairOf(all_results[2]) = <<"CONSOLE", "N/A">>
    /\ PairOf(all_results[3]) = <<"CONSOLE", "PLAIN">>
    /\ all_results[1].category = Absent
    /\ Len(report.sections) = 3
    /\ SectionPair(report.sections[1]) = <<"CONSOLE", "N/A">>
    /\ SectionPair(report.sections[3]) = <<"N/A", "PLAIN">>

RECURSIVE TotalRows(_)
TotalRows(secs) ==
    IF secs = <<>> THEN 0 ELSE Len(Head(secs).rows) + TotalRows(Tail(secs))

\* C10: in the report of a non-empty result list every entry is exactly one
\* row, in the one section of its own pair: no two sections have the same
\* pair, no section is empty, every section holds each row as often as the
\* list holds an entry of the section's pair with that row, and the rows of
\* all sections are as many as the entries.
C10_RowsAreTheEntries ==
    (pc = "done" /\ all_results # <<>>) =>
        LET secs == report.sections
        IN  /\ TotalRows(secs) = Len(all_results)
            /\ \A k, l \in DOMAIN secs :
                  SectionPair(secs[k]) = SectionPair(secs[l]) => k = l
            /\ \A k \in DOMAIN secs : secs[k].rows # <<>>
            /\ \A i \in DOMAIN all_results :
                  \E k \in DOMAIN secs :
                      /\ SectionPair(secs[k]) = PairOf(all_results[i])
                      /\ Cardinality({n \in DOMAIN secs[k].rows :
                                        secs[k].rows[n] = Row(all_results[i])})
                         = Cardinality({j \in DOMAIN all_results :
                                        /\ PairOf(all_results[j]) = SectionPair(secs[k])
                                        /\ Row(all_results[j]) = Row(all_results[i])})

C10_Witness ==
    /\ pc = "done"
    /\ Len(all_results) = 3
    /\ all_results[1] = all_results[3]
    /\ PairOf(all_results[2]) # PairOf(all_results[1])
    /\ Len(report.sections) = 2
    /\ TotalRows(report.sections) = 3

\* C8: at most one command is in progress; the commands are started in the
\* order lumberjack, log4j, logback, jul; when a command has been started,
\* no earlier backend is still running or unprocessed; and the report is
\* generated only when every backend has been processed.
C8_StrictlySequential ==
    /\ Cardinality(running) <= 1
    /\ Len(started) <= 4
    /\ \A i \in DOMAIN started :
          /\ started[i] = <<"lumberjack", "log4j", "logback", "jul">>[i]
          /\ \A j \in 1..(i - 1) :
                /\ started[j] \notin running
                /\ processed[started[j]] # "pending"
    /\ (pc = "done" \/ exc = "KeyError" \/ report.st = "new") =>
          /\ running = {}
          /\ \A b \in {"lumberjack", "log4j", "logback", "jul"} :
                Invoked(b) = 1 /\ processed[b] # "pending"

C8_Witness ==
    /\ pc = "running"
    /\ started = <<"lumberjack", "log4j", "logback", "jul">>
    /\ running = {"jul"}
    /\ processed["lumberjack"] = "copied"
    /\ processed["log4j"] = "failed"
    /\ processed["logback"] = "missing"

\* C9: once the set-up has run the results directory exists and holds no
\* file of an earlier run, no command is started before the set-up, and
\* when collect_results returns the directory holds results_<backend>.json
\* exactly for the backends whose command exited with zero and left a
\* result file.
C9_DirectoryRecreated ==
    /\ pc = "setup" => started = <<>>
    /\ pc # "setup" =>
          /\ resultsDir.exists
          /\ \A f \in resultsDir.files : f.file.origin # "leftover"
    /\ CollectReturned =>
          FileNames = {DestName(b) : b \in {x \in Backends : rc[x] = "zero" /\ fileLeft[x]}}

C9_Witness ==
    /\ pc = "generate"
    /\ rc["jul"] = "nonzero" /\ fileLeft["jul"]
    /\ rc["logback"] = "zero" /\ ~fileLeft["logback"]
    /\ FileNames = {DestName("lumberjack"), DestName("log4j")}

====
